---- MODULE Spec2Model ----
(***************************************************************************)
(* Model of recover_als_files5.py: the scan / classify / merge / copy      *)
(* pipeline of main(), _scan_worker(), is_als_or_alp_file() and             *)
(* save_file().                                                             *)
(*                                                                          *)
(* A path is a sequence of components, a component (directory or file       *)
(* name) is a sequence of one-character strings, so that lower(),           *)
(* endswith() and the substring test of the keyword match are computed.     *)
(* A file's content is the kind of signature it carries and the byte        *)
(* offset at which that signature starts.                                   *)
(***************************************************************************)
EXTENDS Integers, Sequences, FiniteSets, Bags, TLC

VARIABLES
    files,              \* the source tree: set of file records (never changes)
    dirs,               \* the source tree: set of directory records below scan_dir
    keywords,           \* args.keywords
    num_processes,      \* 1 if --no-parallel else args.processes
    pc,                 \* position of main()
    scan_roots,         \* sequence of unit roots built by main()
    unitState,          \* per unit: "pending", "running" or "done"
    results,            \* found_files dictionaries returned so far
    all_found_files,    \* the merged dictionary
    all_files_to_save,  \* als + alp + keyword, handed to the copy phase
    attempts,           \* per candidate: number of save_file calls made
    outcome,            \* per candidate: "none", "ok" or "failed"
    save_results,       \* the list of booleans collected from save_file
    dest,               \* destination tree: set of paths written
    saveMode,           \* "none", "pool", "sequential" or "poolfailed"
    successful_saves,   \* reported tally
    failed_saves,       \* reported tally
    log,                \* bag of the warning and error events logged by the scan
    scan_summary,       \* <<>>, or <<the counts logged when the scan completes>>
    raised              \* units whose walk ended with an exception

vars == <<files, dirs, keywords, num_processes, pc, scan_roots, unitState,
          results, all_found_files, all_files_to_save, attempts, outcome,
          save_results, dest, saveMode, successful_saves, failed_saves,
          log, scan_summary, raised>>

diag == <<log, scan_summary, raised>>

tree == <<files, dirs, keywords, num_processes>>

(***************************************************************************)
(* Bounds and program constants                                             *)
(***************************************************************************)
MaxProcs == 2

ALS_MARKER_LEN == 17
ALP_MARKER_LEN == 8
HEADER_LEN == 256

(***************************************************************************)
(* Strings                                                                  *)
(***************************************************************************)
Uppers == <<"A","B","C","D","E","F","G","H","I","J","K","L","M",
            "N","O","P","Q","R","S","T","U","V","W","X","Y","Z">>
Lowers == <<"a","b","c","d","e","f","g","h","i","j","k","l","m",
            "n","o","p","q","r","s","t","u","v","w","x","y","z">>

\* the lower-case letter of each upper-case letter
ToLower ==
    [ch \in {Uppers[i] : i \in 1..Len(Uppers)} |->
        Lowers[CHOOSE i \in 1..Len(Uppers) : Uppers[i] = ch]]

LowerChar(ch) == IF ch \in DOMAIN ToLower THEN ToLower[ch] ELSE ch

\* str.lower()
Lower(s) == [i \in 1..Len(s) |-> LowerChar(s[i])]

\* str.endswith(suffix)
EndsWith(s, suffix) ==
    /\ Len(suffix) <= Len(s)
    /\ SubSeq(s, Len(s) - Len(suffix) + 1, Len(s)) = suffix

\* sub in s
Contains(s, sub) ==
    \E i \in 1..(Len(s) - Len(sub) + 1) : SubSeq(s, i, i + Len(sub) - 1) = sub

EXT_ALS == <<".","a","l","s">>
EXT_ALP == <<".","a","l","p">>

(***************************************************************************)
(* Paths                                                                    *)
(***************************************************************************)
scan_dir   == << <<"m","n","t">>, <<"s","r","c">> >>
output_dir == << <<"o","u","t">> >>

DIR_A   == scan_dir \o << <<"A">> >>
DIR_B   == scan_dir \o << <<"B">> >>
DIR_SUB == DIR_A \o << <<"s","u","b">> >>

\* os.path.join(a, b) for a relative b
Join(a, b) == a \o b

IsPrefix(a, p) == Len(a) <= Len(p) /\ SubSeq(p, 1, Len(a)) = a

CommonLen(p, q) ==
    LET n == IF Len(p) < Len(q) THEN Len(p) ELSE Len(q)
        S == {k \in 0..n : SubSeq(p, 1, k) = SubSeq(q, 1, k)}
    IN  CHOOSE k \in S : \A j \in S : j <= k

DOTDOT == <<".",".">>

\* os.path.relpath(p, start)
RelPath(p, start) ==
    LET k == CommonLen(p, start)
    IN  [i \in 1..(Len(start) - k) |-> DOTDOT] \o SubSeq(p, k + 1, Len(p))

Parent(p) == SubSeq(p, 1, Len(p) - 1)

FilePath(f) == Join(f.dir, <<f.name>>)

(***************************************************************************)
(* The source tree                                                          *)
(* file: [dir, name, content, readable, openFails]                          *)
(*   content = [sig, at]: the signature bytes the file holds ("als" for     *)
(*   ALS_MARKER, "zip" for ALP_MARKER, "none") and the offset they start at *)
(*   readable  = os.access(file_path, os.R_OK)                              *)
(*   openFails = open()/read() of the header raises                         *)
(* directory: [path, readable]                                              *)
(***************************************************************************)
FilesIn(d) == {f \in files : f.dir = d}

SubDirs(d) == {x \in dirs : Parent(x.path) = d}

Perms(S) ==
    {s \in [1..Cardinality(S) -> S] :
        \A i, j \in 1..Cardinality(S) : i # j => s[i] # s[j]}

(***************************************************************************)
(* is_als_or_alp_file                                                       *)
(***************************************************************************)
\* ALS_MARKER in header, header = f.read(256)
IsAls(content) ==
    content.sig = "als" /\ content.at + ALS_MARKER_LEN <= HEADER_LEN

\* header.startswith(ALP_MARKER)
IsAlp(content) ==
    content.sig = "zip" /\ content.at = 0 /\ ALP_MARKER_LEN <= HEADER_LEN

IsAlsOrAlpFile(f) ==
    IF f.openFails THEN FALSE
    ELSE IsAls(f.content) \/ IsAlp(f.content)

(***************************************************************************)
(* _scan_worker                                                             *)
(***************************************************************************)
\* IsKeyword without the "if k" filter
IsKeywordNoFilter(file, kws) ==
    \E i \in 1..Len(kws) : Contains(Lower(file), Lower(kws[i]))

\* any(k.lower() in file.lower() for k in keywords if k)
IsKeyword(file, kws) ==
    \E i \in 1..Len(kws) :
        kws[i] # <<>> /\ Contains(Lower(file), Lower(kws[i]))

\* OutputPath with the relative path taken from the unit's own root
OutputPathFromUnitRoot(file_path, root_dir, base_scan_path, output_base_dir) ==
    Join(output_base_dir, RelPath(file_path, root_dir))

\* OutputPath copying every file straight into the output directory
OutputPathFlat(file_path, root_dir, base_scan_path, output_base_dir) ==
    Join(output_base_dir, <<file_path[Len(file_path)]>>)

\* lines 67-68: the destination of a file found below root_dir
OutputPath(file_path, root_dir, base_scan_path, output_base_dir) ==
    Join(output_base_dir, RelPath(file_path, base_scan_path))

\* Classify where a failed header read drops the file
ClassifyHeaderErrorSkips(f, kws) ==
    IF ~f.readable THEN "skipped"
    ELSE IF f.openFails THEN "none"
    ELSE IF IsAlsOrAlpFile(f)
         THEN IF EndsWith(Lower(f.name), EXT_ALS) THEN "als"
              ELSE IF EndsWith(Lower(f.name), EXT_ALP) THEN "alp"
              ELSE "als"
    ELSE IF IsKeyword(f.name, kws) THEN "keyword"
    ELSE "none"

\* Classify without the access check of lines 63-65
ClassifyNoAccessCheck(f, kws) ==
    IF f.content.sig \in {"als", "zip"} /\ ~f.openFails
    THEN IF EndsWith(Lower(f.name), EXT_ALS) THEN "als"
         ELSE IF EndsWith(Lower(f.name), EXT_ALP) THEN "alp"
         ELSE "als"
    ELSE IF IsKeyword(f.name, kws) THEN "keyword"
    ELSE "none"

\* lines 63-88: the bucket a file is appended to; "skipped" when the access
\* check fails, "none" when the file is read and matches nothing
Classify(f, kws) ==
    IF ~f.readable THEN "skipped"
    ELSE LET is_ableton == IsAlsOrAlpFile(f)
             is_keyword == IsKeyword(f.name, kws)
         IN  IF is_ableton
             THEN IF EndsWith(Lower(f.name), EXT_ALS) THEN "als"
                  ELSE IF EndsWith(Lower(f.name), EXT_ALP) THEN "alp"
                  ELSE "als"
             ELSE IF is_keyword THEN "keyword"
             ELSE "none"

Buckets == {"als", "alp", "keyword"}

EmptyFound == [als |-> <<>>, alp |-> <<>>, keyword |-> <<>>]

\* os.walk(root_dir, topdown=True) with the pruning of lines 50-57: the
\* possible visiting orders of the files (listing order is the OS's choice)
RECURSIVE WalkOrders(_), SubWalks(_)
WalkOrders(d) ==
    LET accessible_dirs == {x.path : x \in {y \in SubDirs(d) : y.readable}}
    IN  {fs \o rest : fs \in Perms(FilesIn(d)), rest \in SubWalks(accessible_dirs)}

SubWalks(S) ==
    IF S = {} THEN {<<>>}
    ELSE UNION {{w \o r : w \in WalkOrders(x), r \in SubWalks(S \ {x})} : x \in S}

\* os.walk on a root it cannot list yields nothing (onerror is None)
UnitWalks(root_dir) ==
    IF \E x \in dirs : x.path = root_dir /\ ~x.readable
    THEN {<<>>}
    ELSE WalkOrders(root_dir)

\* the loop of lines 59-91 over one visiting order
RECURSIVE ScanFiles(_, _, _)
ScanFiles(walk, args, found) ==
    IF walk = <<>> THEN found
    ELSE LET f    == Head(walk)
             pair == <<FilePath(f),
                       OutputPath(FilePath(f), args.root_dir,
                                  args.base_scan_path, args.output_base_dir)>>
             b    == Classify(f, args.keywords)
         IN  ScanFiles(Tail(walk), args,
                       IF b \in Buckets
                       THEN [found EXCEPT ![b] = Append(@, pair)]
                       ELSE found)

ScanWorker(args, walk) == ScanFiles(walk, args, EmptyFound)

\* lines 44-98 when an exception ends the walk while file k+1 is handled:
\* the except clauses of lines 93-96 log it and found_files is returned as is
ScanWorkerRaised(args, walk, k) ==
    ScanFiles(SubSeq(walk, 1, k), args, EmptyFound)

(***************************************************************************)
(* The events logged by a unit                                              *)
(***************************************************************************)
Event(kind, path) == [kind |-> kind, path |-> path]

\* the directories os.walk enters from d: d and, recursively, the
\* subdirectories left in dirs[:] by line 57
RECURSIVE Entered(_)
Entered(d) ==
    {d} \cup UNION {Entered(x.path) : x \in {y \in SubDirs(d) : y.readable}}

\* os.walk swallows the error of listing its root (onerror is None), so
\* lines 93-94 are never reached for it
UnitDirs(root_dir) ==
    IF \E x \in dirs : x.path = root_dir /\ ~x.readable
    THEN {}
    ELSE Entered(root_dir)

\* line 56: one warning per denied subdirectory of an entered directory
DirWarnings(entered) ==
    {Event("dir", x.path) :
        x \in {y \in dirs : ~y.readable /\ Parent(y.path) \in entered}}

\* line 64 (access denied) and lines 33, 36 (header read failed)
FileWarnings(fs) ==
    {Event("file", FilePath(f)) : f \in {g \in fs : ~g.readable}}
      \cup {Event("header", FilePath(f)) :
               f \in {g \in fs : g.readable /\ g.openFails}}

\* what a unit that walks to the end logs
UnitLog(root_dir, walk) ==
    SetToBag(DirWarnings(UnitDirs(root_dir))
               \cup FileWarnings({walk[i] : i \in 1..Len(walk)}))

\* what a unit logs whose walk raises while file k+1 is handled (line 96)
UnitLogRaised(root_dir, walk, k) ==
    SetToBag(DirWarnings({root_dir} \cup {walk[i].dir : i \in 1..(k + 1)})
               \cup FileWarnings({walk[i] : i \in 1..k})
               \cup {Event("error", root_dir)})

(***************************************************************************)
(* main: scanning phase                                                     *)
(***************************************************************************)
\* line 159: the immediate subdirectories of scan_dir
TopDirs == {x.path : x \in SubDirs(scan_dir)}

\* ScanRootSet with scan_dir itself added as one more unit
ScanRootSetWithBase == TopDirs \cup {scan_dir}

\* lines 159-164: the roots handed to the workers, as a set
ScanRootSet == IF TopDirs = {} THEN {scan_dir} ELSE TopDirs

\* line 166
WorkerArgs(root) ==
    [root_dir |-> root, keywords |-> keywords,
     base_scan_path |-> scan_dir, output_base_dir |-> output_dir]

Units == 1..Len(scan_roots)

\* Extend keeping only the result collected last
ExtendOverwrite(merged, rs) ==
    IF rs = <<>> THEN merged ELSE rs[Len(rs)]

RECURSIVE Extend(_, _)
\* lines 187-190
Extend(merged, rs) ==
    IF rs = <<>> THEN merged
    ELSE Extend([b \in Buckets |-> merged[b] \o Head(rs)[b]], Tail(rs))

\* AllUnitsReturned satisfied by the first result
SomeUnitReturned == \E u \in Units : unitState[u] = "done"

\* list(pool.imap_unordered(...)) / the sequential loop has consumed every unit
AllUnitsReturned == \A u \in Units : unitState[u] = "done"

Running == {u \in Units : unitState[u] = "running"}

\* lines 159-168
Partition ==
    /\ pc = "start"
    /\ \E order \in Perms(ScanRootSet) :
         /\ scan_roots' = order
         /\ unitState' = [u \in 1..Len(order) |-> "pending"]
    /\ pc' = "scanning"
    /\ UNCHANGED <<tree, diag, results, all_found_files, all_files_to_save, attempts,
                   outcome, save_results, dest, saveMode, successful_saves,
                   failed_saves>>

\* line 175: a pool process picks up a unit
PoolStartUnit(u) ==
    /\ pc = "scanning"
    /\ num_processes > 1
    /\ unitState[u] = "pending"
    /\ Cardinality(Running) < num_processes
    /\ unitState' = [unitState EXCEPT ![u] = "running"]
    /\ UNCHANGED <<tree, diag, pc, scan_roots, results, all_found_files,
                   all_files_to_save, attempts, outcome, save_results, dest,
                   saveMode, successful_saves, failed_saves>>

\* line 175: a unit's _scan_worker returns; imap_unordered yields its result
PoolFinishUnit(u) ==
    /\ pc = "scanning"
    /\ num_processes > 1
    /\ unitState[u] = "running"
    /\ \E walk \in UnitWalks(scan_roots[u]) :
         /\ results' = Append(results,
                               ScanWorker(WorkerArgs(scan_roots[u]), walk))
         /\ log' = log (+) UnitLog(scan_roots[u], walk)
    /\ unitState' = [unitState EXCEPT ![u] = "done"]
    /\ UNCHANGED <<tree, pc, scan_roots, all_found_files, all_files_to_save,
                   attempts, outcome, save_results, dest, saveMode,
                   successful_saves, failed_saves, scan_summary, raised>>

\* ScanPoolFails going on with the results collected so far
ScanPoolFailsKeepsPartial ==
    /\ pc = "scanning"
    /\ num_processes > 1
    /\ all_found_files' = Extend(EmptyFound, results)
    /\ pc' = "aborted"
    /\ UNCHANGED <<tree, diag, scan_roots, unitState, results,
                   all_files_to_save, attempts, outcome, save_results, dest,
                   saveMode, successful_saves, failed_saves>>

\* lines 176-178: the pool raises; main returns
ScanPoolFails ==
    /\ pc = "scanning"
    /\ num_processes > 1
    /\ pc' = "aborted"
    /\ UNCHANGED <<tree, diag, scan_roots, unitState, results, all_found_files,
                   all_files_to_save, attempts, outcome, save_results, dest,
                   saveMode, successful_saves, failed_saves>>

\* lines 181-183: the sequential loop runs the next unit of worker_args
SeqScanUnit(u) ==
    /\ pc = "scanning"
    /\ num_processes <= 1
    /\ unitState[u] = "pending"
    /\ \A v \in Units : v < u => unitState[v] = "done"
    /\ \E walk \in UnitWalks(scan_roots[u]) :
         /\ results' = Append(results,
                               ScanWorker(WorkerArgs(scan_roots[u]), walk))
         /\ log' = log (+) UnitLog(scan_roots[u], walk)
    /\ unitState' = [unitState EXCEPT ![u] = "done"]
    /\ UNCHANGED <<tree, pc, scan_roots, all_found_files, all_files_to_save,
                   attempts, outcome, save_results, dest, saveMode,
                   successful_saves, failed_saves, scan_summary, raised>>

\* PoolUnitRaises without the except clauses of lines 93-96: the exception
\* ends the worker process and its result never reaches imap_unordered
PoolUnitRaisesHangs(u) ==
    /\ pc = "scanning"
    /\ num_processes > 1
    /\ unitState[u] = "running"
    /\ unitState' = [unitState EXCEPT ![u] = "lost"]
    /\ raised' = raised \cup {u}
    /\ UNCHANGED <<tree, pc, scan_roots, results, all_found_files,
                   all_files_to_save, attempts, outcome, save_results, dest,
                   saveMode, successful_saves, failed_saves, log,
                   scan_summary>>

\* line 175 with lines 93-96: the walk of a pooled unit raises; the worker
\* logs the error and returns what it had gathered
PoolUnitRaises(u) ==
    /\ pc = "scanning"
    /\ num_processes > 1
    /\ unitState[u] = "running"
    /\ \E walk \in UnitWalks(scan_roots[u]) : \E k \in 0..(Len(walk) - 1) :
         /\ results' = Append(results,
                 ScanWorkerRaised(WorkerArgs(scan_roots[u]), walk, k))
         /\ log' = log (+) UnitLogRaised(scan_roots[u], walk, k)
    /\ unitState' = [unitState EXCEPT ![u] = "done"]
    /\ raised' = raised \cup {u}
    /\ UNCHANGED <<tree, pc, scan_roots, all_found_files, all_files_to_save,
                   attempts, outcome, save_results, dest, saveMode,
                   successful_saves, failed_saves, scan_summary>>

\* SeqUnitRaises without the try of line 44: the exception reaches main
SeqUnitRaisesAborts(u) ==
    /\ pc = "scanning"
    /\ num_processes <= 1
    /\ unitState[u] = "pending"
    /\ \A v \in Units : v < u => unitState[v] = "done"
    /\ pc' = "aborted"
    /\ raised' = raised \cup {u}
    /\ UNCHANGED <<tree, scan_roots, unitState, results, all_found_files,
                   all_files_to_save, attempts, outcome, save_results, dest,
                   saveMode, successful_saves, failed_saves, log,
                   scan_summary>>

\* lines 181-183 with lines 93-96: the same in the sequential loop
SeqUnitRaises(u) ==
    /\ pc = "scanning"
    /\ num_processes <= 1
    /\ unitState[u] = "pending"
    /\ \A v \in Units : v < u => unitState[v] = "done"
    /\ \E walk \in UnitWalks(scan_roots[u]) : \E k \in 0..(Len(walk) - 1) :
         /\ results' = Append(results,
                 ScanWorkerRaised(WorkerArgs(scan_roots[u]), walk, k))
         /\ log' = log (+) UnitLogRaised(scan_roots[u], walk, k)
    /\ unitState' = [unitState EXCEPT ![u] = "done"]
    /\ raised' = raised \cup {u}
    /\ UNCHANGED <<tree, pc, scan_roots, all_found_files, all_files_to_save,
                   attempts, outcome, save_results, dest, saveMode,
                   successful_saves, failed_saves, scan_summary>>

\* lines 224-225: KeyboardInterrupt during the scanning or the saving phase;
\* the handler logs one line and main ends
Interrupt ==
    /\ pc \in {"scanning", "saving"}
    /\ pc' = "interrupted"
    /\ UNCHANGED <<tree, diag, scan_roots, unitState, results, all_found_files,
                   all_files_to_save, attempts, outcome, save_results, dest,
                   saveMode, successful_saves, failed_saves>>

\* line 200
FilesToSave(found) == found.als \o found.alp \o found.keyword

\* line 204: only use the pool if there are enough files
UsePool(todo) == num_processes > 1 /\ Len(todo) > num_processes

\* lines 186-204 and 222: merge, log the counts, and enter the saving phase
Merge ==
    /\ pc = "scanning"
    /\ AllUnitsReturned
    /\ LET merged == Extend(EmptyFound, results)
           total_found == Len(merged.als) + Len(merged.alp) + Len(merged.keyword)
       IN  /\ all_found_files' = merged
           /\ scan_summary' = <<[b \in Buckets |-> Len(merged[b])]>>
           /\ IF total_found > 0
              THEN /\ all_files_to_save' = FilesToSave(merged)
                   /\ attempts' = [i \in 1..total_found |-> 0]
                   /\ outcome' = [i \in 1..total_found |-> "none"]
                   /\ saveMode' = IF UsePool(FilesToSave(merged))
                                  THEN "pool" ELSE "sequential"
                   /\ pc' = "saving"
              ELSE /\ pc' = "nofiles"
                   /\ UNCHANGED <<all_files_to_save, attempts, outcome,
                                  saveMode>>
    /\ UNCHANGED <<tree, scan_roots, unitState, results, save_results, dest,
                   successful_saves, failed_saves, log, raised>>

(***************************************************************************)
(* save_file and main: saving phase                                         *)
(***************************************************************************)
Candidates == 1..Len(all_files_to_save)

\* SaveLoopDone for a loop that breaks at the first failed copy
SaveLoopStopsOnFailure ==
    \/ Len(save_results) = Len(all_files_to_save)
    \/ save_results # <<>> /\ ~save_results[Len(save_results)]

\* the loop of lines 215-216 / the imap_unordered of line 207 is exhausted
SaveLoopDone == Len(save_results) = Len(all_files_to_save)

\* lines 101-111 for candidate i: ok is whether makedirs and copy2 succeed
SaveFile(i, ok) ==
    /\ attempts' = [attempts EXCEPT ![i] = @ + 1]
    /\ outcome' = [outcome EXCEPT ![i] = IF ok THEN "ok" ELSE "failed"]
    /\ dest' = IF ok THEN dest \cup {all_files_to_save[i][2]} ELSE dest
    /\ save_results' = Append(save_results, ok)

\* line 207: a pool process runs save_file on a candidate not yet taken
PoolSave(i) ==
    /\ pc = "saving"
    /\ saveMode = "pool"
    /\ ~SaveLoopDone
    /\ attempts[i] = 0
    /\ \E ok \in BOOLEAN : SaveFile(i, ok)
    /\ UNCHANGED <<tree, diag, pc, scan_roots, unitState, results, all_found_files,
                   all_files_to_save, saveMode, successful_saves, failed_saves>>

\* lines 208-211: the pool raises; what was copied stays copied
PoolSaveFails ==
    /\ pc = "saving"
    /\ saveMode = "pool"
    /\ save_results' = <<FALSE>>
    /\ saveMode' = "poolfailed"
    /\ UNCHANGED <<tree, diag, pc, scan_roots, unitState, results, all_found_files,
                   all_files_to_save, attempts, outcome, dest,
                   successful_saves, failed_saves>>

\* lines 215-216: the sequential loop saves the next candidate
SeqSave(i) ==
    /\ pc = "saving"
    /\ saveMode = "sequential"
    /\ ~SaveLoopDone
    /\ i = Len(save_results) + 1
    /\ \E ok \in BOOLEAN : SaveFile(i, ok)
    /\ UNCHANGED <<tree, diag, pc, scan_roots, unitState, results, all_found_files,
                   all_files_to_save, saveMode, successful_saves, failed_saves>>

RECURSIVE CountTrue(_)
CountTrue(rs) ==
    IF rs = <<>> THEN 0
    ELSE (IF Head(rs) THEN 1 ELSE 0) + CountTrue(Tail(rs))

\* line 218
SuccessfulSaves(rs) == CountTrue(rs)

\* FailedSaves counted from the collected results instead
FailedSavesCounted(rs, todo) == Len(rs) - CountTrue(rs)

\* line 219
FailedSaves(rs, todo) == Len(todo) - SuccessfulSaves(rs)

\* lines 218-220
Tally ==
    /\ pc = "saving"
    /\ SaveLoopDone \/ saveMode = "poolfailed"
    /\ successful_saves' = SuccessfulSaves(save_results)
    /\ failed_saves' = FailedSaves(save_results, all_files_to_save)
    /\ pc' = "done"
    /\ UNCHANGED <<tree, diag, scan_roots, unitState, results, all_found_files,
                   all_files_to_save, attempts, outcome, save_results, dest,
                   saveMode>>

(***************************************************************************)
(* Initial states: the trees, keyword lists and process counts scanned      *)
(***************************************************************************)
N_SONG  == <<"s","o","n","g",".","a","l","s">>
N_MIX   == <<"m","i","x",".","z","i","p">>
N_PACK  == <<"P","k",".","A","L","P">>
N_SOMNI == <<"d","_","s","o","m","n","i",".","w","a","v">>
N_NOTE  == <<"n",".","t","x","t">>

Names == {N_SONG, N_MIX, N_PACK, N_SOMNI, N_NOTE}

K_SOMNI == <<"S","o","m","n","i">>

\* the keyword ""
K_EMPTY == <<>>

\* -k not given, -k "", -k "" Somni
KeywordLists == {<<>>, <<K_EMPTY>>, <<K_EMPTY, K_SOMNI>>}

C_ALS  == [sig |-> "als", at |-> 0]
C_LATE == [sig |-> "als", at |-> 250]
C_ZIP  == [sig |-> "zip", at |-> 0]
C_NONE == [sig |-> "none", at |-> 0]

Contents == {C_ALS, C_LATE, C_ZIP, C_NONE}

File(d, n, c, r, o) ==
    [dir |-> d, name |-> n, content |-> c, readable |-> r, openFails |-> o]

NestedContext ==
    {File(DIR_A, N_SONG, C_ALS, TRUE, FALSE),
     File(DIR_B, N_MIX, C_ZIP, TRUE, FALSE),
     File(DIR_SUB, N_SOMNI, C_NONE, TRUE, FALSE)}

FlatContext == {File(scan_dir, N_SONG, C_ALS, TRUE, FALSE)}

NestedDirs(subReadable, bReadable) ==
    {[path |-> DIR_A, readable |-> TRUE],
     [path |-> DIR_B, readable |-> bReadable],
     [path |-> DIR_SUB, readable |-> subReadable]}

\* the file whose place, name, content and access vary: readable with any
\* content, or holding the marker and unreadable, or holding the marker with a
\* failing header read (the content of a file that is not read plays no part)
Probes(where) ==
    {File(d, n, c, TRUE, FALSE) : d \in where, n \in Names, c \in Contents}
      \cup {File(d, n, C_ALS, FALSE, FALSE) : d \in where, n \in Names}
      \cup {File(d, n, C_ALS, TRUE, TRUE) : d \in where, n \in Names}

NoClash(context, probe) ==
    \A f \in context : FilePath(f) # FilePath(probe)

Init ==
    /\ \/ \E probe \in Probes({scan_dir, DIR_A, DIR_B, DIR_SUB}),
             subReadable \in BOOLEAN, bReadable \in BOOLEAN :
            /\ NoClash(NestedContext, probe)
            /\ subReadable \/ probe.dir = DIR_SUB
            /\ bReadable \/ probe.dir = DIR_B
            /\ files = NestedContext \cup {probe}
            /\ dirs = NestedDirs(subReadable, bReadable)
       \/ \E probe \in Probes({scan_dir}) :
            /\ NoClash(FlatContext, probe)
            /\ files = FlatContext \cup {probe}
            /\ dirs = {}
    /\ keywords \in KeywordLists
    /\ num_processes \in 1..MaxProcs
    /\ pc = "start"
    /\ scan_roots = <<>>
    /\ unitState = <<>>
    /\ results = <<>>
    /\ all_found_files = EmptyFound
    /\ all_files_to_save = <<>>
    /\ attempts = <<>>
    /\ outcome = <<>>
    /\ save_results = <<>>
    /\ dest = {}
    /\ saveMode = "none"
    /\ successful_saves = 0
    /\ failed_saves = 0
    /\ log = EmptyBag
    /\ scan_summary = <<>>
    /\ raised = {}

Next ==
    \/ Partition
    \/ \E u \in Units : PoolStartUnit(u)
    \/ \E u \in Units : PoolFinishUnit(u)
    \/ ScanPoolFails
    \/ \E u \in Units : SeqScanUnit(u)
    \/ Merge
    \/ \E i \in Candidates : PoolSave(i)
    \/ PoolSaveFails
    \/ \E i \in Candidates : SeqSave(i)
    \/ Tally

\* runs in which no walk raises and the user does not interrupt
Spec == Init /\ [][Next]_vars

\* runs in which the walk of a unit may raise
NextWalkError ==
    \/ Next
    \/ \E u \in Units : PoolUnitRaises(u)
    \/ \E u \in Units : SeqUnitRaises(u)

SpecWalkError == Init /\ [][NextWalkError]_vars

\* the steps main and the workers take of their own accord: every loop of
\* lines 170-220 goes on to its next element and every worker the pool has
\* started runs to its return; the failures are not among them
Progress ==
    \/ Partition
    \/ \E u \in Units : PoolStartUnit(u)
    \/ \E u \in Units : PoolFinishUnit(u)
    \/ \E u \in Units : SeqScanUnit(u)
    \/ Merge
    \/ \E i \in Candidates : PoolSave(i)
    \/ \E i \in Candidates : SeqSave(i)
    \/ Tally

\* the runs started with a keyword list that matches file names
InitFair == Init /\ keywords = <<K_EMPTY, K_SOMNI>>

\* runs in which walks may raise and pools may fail, under fair scheduling
\* of main and of the workers
SpecFair == InitFair /\ [][NextWalkError]_vars /\ WF_vars(Progress)

\* runs the user may interrupt
NextInterrupt ==
    \/ Next
    \/ Interrupt

SpecInterrupt == Init /\ [][NextInterrupt]_vars

(***************************************************************************)
(* Vocabulary of the properties                                             *)
(***************************************************************************)
\* main has merged the results of the scan
Merged == pc \in {"saving", "nofiles", "done"}

RangeOf(seq) == {seq[i] : i \in 1..Len(seq)}

\* the files a unit rooted at root visits (the same set in every order)
WalkedBy(root) == UNION {RangeOf(w) : w \in UnitWalks(root)}

UnitsWalking(f) == {u \in Units : f \in WalkedBy(scan_roots[u])}

\* the file is visited by a unit, passes the access check and its header is read
Inspected(f) == UnitsWalking(f) # {} /\ f.readable /\ ~f.openFails

\* every directory between scan_dir and the file can be read
UnderReadableDirs(f) ==
    \A x \in dirs : IsPrefix(x.path, f.dir) => x.readable

\* number of entries of bucket b of the merged result whose source is path
Occ(path, b) ==
    Cardinality({i \in 1..Len(all_found_files[b]) :
                    all_found_files[b][i][1] = path})

TotalOcc(path) == Occ(path, "als") + Occ(path, "alp") + Occ(path, "keyword")

OkCount == Cardinality({i \in Candidates : outcome[i] = "ok"})

C2_MarkerFileIsPrimary ==
    Merged =>
        \A f \in files :
            (Inspected(f) /\ IsAls(f.content))
              => Occ(FilePath(f), "als") = 1 /\ TotalOcc(FilePath(f)) = 1

(***************************************************************************)
(* C3: the units partition the tree: every readable file under scan_dir     *)
(* whose directories are readable is visited by exactly one unit. Violated  *)
(* by a file directly in scan_dir when scan_dir has subdirectories.         *)
(***************************************************************************)
C3_UnitsPartitionTree ==
    Merged =>
        \A f \in files :
            (f.readable /\ UnderReadableDirs(f))
              => Cardinality(UnitsWalking(f)) = 1

(***************************************************************************)
(* C4: a file that starts with the ZIP magic, holds no primary marker and   *)
(* is not named *.als is recorded in the 'alp' bucket whatever its          *)
(* extension. Violated by mix.zip, which is recorded in 'als'.              *)
(***************************************************************************)
C4_ZipMagicIsArchive ==
    Merged =>
        \A f \in files :
            (Inspected(f) /\ IsAlp(f.content) /\ ~IsAls(f.content)
                /\ ~EndsWith(Lower(f.name), EXT_ALS))
              => Occ(FilePath(f), "alp") = 1

(***************************************************************************)
(* C5: the extension alone is a format signature: a visited readable file   *)
(* named *.als is recorded in 'als' and one named *.alp in 'alp' even when  *)
(* its header holds neither marker. Violated: such a file is recorded       *)
(* nowhere, or in 'keyword'.                                                *)
(***************************************************************************)
C5_ExtensionAloneSuffices ==
    Merged =>
        \A f \in files :
            (Inspected(f) /\ ~IsAls(f.content) /\ ~IsAlp(f.content))
              => /\ EndsWith(Lower(f.name), EXT_ALS)
                      => Occ(FilePath(f), "als") = 1
                 /\ EndsWith(Lower(f.name), EXT_ALP)
                      => Occ(FilePath(f), "alp") = 1

(***************************************************************************)
(* C6: a failed copy never stops the batch: no candidate is ever attempted  *)
(* twice, and when the copy phase reaches the tally without the pool        *)
(* raising, every candidate has had exactly one attempt, in the pooled and  *)
(* in the sequential path, whatever the earlier outcomes were.              *)
(***************************************************************************)
C6_EveryCandidateAttemptedOnce ==
    /\ \A i \in Candidates : attempts[i] <= 1
    /\ (pc = "done" /\ saveMode \in {"pool", "sequential"})
         => \A i \in Candidates : attempts[i] = 1 /\ outcome[i] # "none"

C6_Witness ==
    /\ pc = "done"
    /\ saveMode = "sequential"
    /\ Len(all_files_to_save) >= 3
    /\ outcome[1] = "failed"
    /\ outcome[2] = "ok"
    /\ outcome[3] = "failed"

(***************************************************************************)
(* C7: at the final tally successful_saves + failed_saves equals the        *)
(* number of candidates handed to the copy phase and neither is negative,   *)
(* on the pooled, the sequential and the failed-pool path.                  *)
(***************************************************************************)
C7_TallySumsToCandidates ==
    pc = "done" =>
        /\ successful_saves + failed_saves = Len(all_files_to_save)
        /\ successful_saves >= 0
        /\ failed_saves >= 0

C7_Witness ==
    /\ pc = "done"
    /\ saveMode = "poolfailed"
    /\ failed_saves = Len(all_files_to_save)
    /\ Len(all_files_to_save) >= 3

(***************************************************************************)
(* C8: the reported tallies match the outcomes: successful_saves is the     *)
(* number of candidates whose copy completed and failed_saves the number    *)
(* whose copy did not, on every path. Violated when the pool raises after   *)
(* a copy has completed: the report says 0 successes.                       *)
(***************************************************************************)
C8_TallyMatchesOutcomes ==
    pc = "done" =>
        /\ successful_saves = OkCount
        /\ failed_saves = Len(all_files_to_save) - OkCount

(***************************************************************************)
(* C9: every candidate's destination is output_dir joined with the source   *)
(* path relative to scan_dir, in each worker result and in the merged       *)
(* result; after a copy in which every candidate succeeded the destination  *)
(* tree holds exactly those paths.                                          *)
(***************************************************************************)
Mirrored(pair) ==
    /\ IsPrefix(scan_dir, pair[1])
    /\ pair[2] = output_dir \o SubSeq(pair[1], Len(scan_dir) + 1, Len(pair[1]))

C9_DestinationMirrorsSource ==
    /\ \A r \in 1..Len(results) : \A b \in Buckets :
         \A i \in 1..Len(results[r][b]) : Mirrored(results[r][b][i])
    /\ \A i \in Candidates : Mirrored(all_files_to_save[i])
    /\ (pc = "done" /\ \A i \in Candidates : outcome[i] = "ok")
         => dest = {output_dir \o SubSeq(all_files_to_save[i][1],
                                         Len(scan_dir) + 1,
                                         Len(all_files_to_save[i][1])) :
                       i \in Candidates}

C9_Witness ==
    /\ pc = "done"
    /\ \A i \in Candidates : outcome[i] = "ok"
    /\ \E i \in Candidates : Len(all_files_to_save[i][1]) = Len(scan_dir) + 3
    /\ \E i \in Candidates : Len(all_files_to_save[i][1]) = Len(scan_dir) + 2

(***************************************************************************)
(* C10: barrier: while some dispatched unit has not returned, nothing is    *)
(* merged and nothing is copied; the merge has happened only in states      *)
(* where every unit has returned and every result was collected.            *)
(***************************************************************************)
C10_Barrier ==
    /\ (\E u \in Units : unitState[u] # "done")
         => /\ pc \in {"scanning", "aborted"}
            /\ all_found_files = EmptyFound
            /\ all_files_to_save = <<>>
            /\ save_results = <<>>
            /\ dest = {}
    /\ Merged
         => /\ \A u \in Units : unitState[u] = "done"
            /\ Len(results) = Len(scan_roots)

C10_Witness ==
    /\ pc = "saving"
    /\ num_processes > 1
    /\ Len(scan_roots) = 2
    /\ Len(results) = 2
    /\ results[1] # results[2]
    /\ \E i \in Candidates : attempts[i] = 1

(***************************************************************************)
(* Vocabulary of the properties of the scan result and of the log           *)
(***************************************************************************)
\* the candidate a file gives rise to, computed from the tree alone
PairOf(f) ==
    <<FilePath(f),
      output_dir \o SubSeq(FilePath(f), Len(scan_dir) + 1, Len(FilePath(f)))>>

\* the files below root that can be reached through readable directories,
\* root included
VisitedFrom(root) ==
    {f \in files :
        /\ IsPrefix(root, f.dir)
        /\ \A x \in dirs :
             (IsPrefix(root, x.path) /\ IsPrefix(x.path, f.dir)) => x.readable}

UnitsVisiting(f) == {u \in Units : f \in VisitedFrom(scan_roots[u])}

\* the file is visited when the tree is scanned, whatever the run
Reached(f) == \E r \in ScanRootSet : f \in VisitedFrom(r)

\* number of events logged about path
EventsAbout(path) ==
    CopiesIn(Event("dir", path), log) + CopiesIn(Event("file", path), log)
      + CopiesIn(Event("header", path), log)
      + CopiesIn(Event("error", path), log)

\* name, lower-cased, contains kw, lower-cased, and kw is not empty
HasKeywordAt(name, kw, at) ==
    /\ Len(kw) > 0
    /\ at + Len(kw) - 1 <= Len(name)
    /\ \A j \in 1..Len(kw) : LowerChar(name[at + j - 1]) = LowerChar(kw[j])

NameHasNonEmptyKeyword(name) ==
    \E i \in 1..Len(keywords) : \E at \in 1..Len(name) :
        HasKeywordAt(name, keywords[i], at)

FailedCount == Cardinality({i \in Candidates : outcome[i] = "failed"})

\* the unit whose root the source of a candidate lies under
UnitOf(pair) == CHOOSE u \in Units : IsPrefix(scan_roots[u], pair[1])

\* main has merged the results and has not yet copied a file; the merged
\* result is not assigned again after this point
JustMerged == pc = "nofiles" \/ (pc = "saving" /\ save_results = <<>>)

(***************************************************************************)
(* C11: for an unchanged tree the merged candidate set of each category is  *)
(* the same on every run: it is the set the tree and the keywords           *)
(* determine, with no duplicates, whatever the number of processes, the     *)
(* order of the roots, the listing order and the order in which pooled      *)
(* units complete. Stated of the result as main has just merged it.         *)
(***************************************************************************)
C11_SameCandidateSetEveryRun ==
    JustMerged =>
        /\ \A f \in files :
             LET expected == IF Reached(f) THEN Classify(f, keywords)
                                          ELSE "none"
             IN  \A b \in Buckets :
                     Occ(FilePath(f), b) = (IF b = expected THEN 1 ELSE 0)
        /\ \A b \in Buckets : \A i \in 1..Len(all_found_files[b]) :
             \E f \in files : all_found_files[b][i] = PairOf(f)

C11_Witness ==
    /\ JustMerged
    /\ num_processes > 1
    /\ Len(scan_roots) = 2
    /\ Len(all_found_files.als) >= 2
    /\ \E i \in 1..Len(results[1].als) :
         IsPrefix(scan_roots[2], results[1].als[i][1])

(***************************************************************************)
(* C12: a directory whose access is denied, at any level including a unit   *)
(* root, contributes no candidate and exactly one logged warning. Stated    *)
(* for the denied directories whose ancestors are readable. Violated by a   *)
(* denied unit root: nothing is logged about it.                            *)
(***************************************************************************)
C12_DeniedDirectoryOneWarning ==
    Merged =>
        \A x \in dirs :
            (~x.readable
               /\ \A y \in dirs :
                    (y # x /\ IsPrefix(y.path, x.path)) => y.readable)
              => /\ \A b \in Buckets : \A i \in 1..Len(all_found_files[b]) :
                       ~IsPrefix(x.path, all_found_files[b][i][1])
                 /\ EventsAbout(x.path) = 1

(***************************************************************************)
(* C13: when the user interrupts the run, the partial results gathered so   *)
(* far are reported: the candidates found are in the scan summary and the   *)
(* copies made and failed are in the tallies. Violated: the handler         *)
(* reports nothing.                                                         *)
(***************************************************************************)
C13_InterruptReportsPartialResults ==
    pc = "interrupted" =>
        /\ (\E r \in 1..Len(results) : results[r] # EmptyFound)
             => scan_summary # <<>>
        /\ successful_saves = OkCount
        /\ failed_saves = FailedCount

(***************************************************************************)
(* C14: a visited file that passed the access check and whose header read   *)
(* fails has no format signature and is still matched by name: it is in     *)
(* 'keyword' exactly when its name matches a keyword, never in 'als' or     *)
(* 'alp', and the files visited with it are recorded as usual.              *)
(***************************************************************************)
C14_HeaderErrorFallsBackToKeyword ==
    Merged =>
        \A f \in files :
            (f.readable /\ f.openFails /\ UnitsVisiting(f) # {})
              => /\ Occ(FilePath(f), "als") = 0
                 /\ Occ(FilePath(f), "alp") = 0
                 /\ Occ(FilePath(f), "keyword")
                      = (IF IsKeyword(f.name, keywords) THEN 1 ELSE 0)
                 /\ \A g \in files :
                      (UnitsVisiting(g) = UnitsVisiting(f)
                         /\ Classify(g, keywords) \in Buckets)
                        => Occ(FilePath(g), Classify(g, keywords)) = 1

C14_Witness ==
    /\ Merged
    /\ \E f \in files :
         /\ f.readable /\ f.openFails /\ UnitsVisiting(f) # {}
         /\ Occ(FilePath(f), "keyword") = 1
         /\ \E g \in files : g # f /\ UnitsVisiting(g) = UnitsVisiting(f)
                              /\ TotalOcc(FilePath(g)) = 1

(***************************************************************************)
(* C15: a visited readable file without format signature is in 'keyword'    *)
(* exactly when its name contains, case-insensitively, a non-empty string   *)
(* of the keyword list; with keywords [] or [""] the bucket stays empty.    *)
(* Stated of the result as main has just merged it.                         *)
(***************************************************************************)
C15_KeywordIffNonEmptyMatch ==
    JustMerged =>
        /\ \A f \in files :
             (f.readable /\ ~IsAlsOrAlpFile(f) /\ UnitsVisiting(f) # {})
               => Occ(FilePath(f), "keyword")
                    = (IF NameHasNonEmptyKeyword(f.name) THEN 1 ELSE 0)
        /\ keywords \in {<<>>, <<K_EMPTY>>} => all_found_files.keyword = <<>>

C15_Witness ==
    /\ JustMerged
    /\ keywords = <<K_EMPTY, K_SOMNI>>
    /\ \E f \in files : f.name = N_SOMNI /\ Occ(FilePath(f), "keyword") = 1
    /\ \E g \in files :
         /\ UnitsVisiting(g) # {} /\ g.readable /\ ~IsAlsOrAlpFile(g)
         /\ Occ(FilePath(g), "keyword") = 0

SourceReadable(pair) ==
    \E f \in files : FilePath(f) = pair[1] /\ f.readable

(***************************************************************************)
(* C16: every candidate, in a unit's result, in the merged result and in    *)
(* the list handed to the copy phase, refers to a file that passed the      *)
(* read-access check; a visited file without read access is in no bucket,   *)
(* is logged with one warning, and nothing is written for it.               *)
(***************************************************************************)
C16_CandidatesPassedAccessCheck ==
    /\ \A r \in 1..Len(results) : \A b \in Buckets :
         \A i \in 1..Len(results[r][b]) : SourceReadable(results[r][b][i])
    /\ \A b \in Buckets : \A i \in 1..Len(all_found_files[b]) :
         SourceReadable(all_found_files[b][i])
    /\ \A i \in Candidates : SourceReadable(all_files_to_save[i])
    /\ Merged =>
         \A f \in files :
             (~f.readable /\ UnitsVisiting(f) # {})
               => /\ TotalOcc(FilePath(f)) = 0
                  /\ CopiesIn(Event("file", FilePath(f)), log) = 1
                  /\ PairOf(f)[2] \notin dest

C16_Witness ==
    /\ pc = "done"
    /\ OkCount >= 1
    /\ \E f \in files :
         /\ UnitsVisiting(f) # {} /\ ~f.readable
         /\ IsAlsOrAlpFile(f)
         /\ CopiesIn(Event("file", FilePath(f)), log) = 1

\* the entries of bucket b of the merged result that lie under unit u
MergedOfUnit(u, b) ==
    {i \in 1..Len(all_found_files[b]) :
        IsPrefix(scan_roots[u], all_found_files[b][i][1])}

(***************************************************************************)
(* C17: an exception in the walk of one unit stays in that unit: the unit   *)
(* returns candidates it had gathered (some of its candidates, each once    *)
(* and in its bucket) and logs one error, every other unit's candidates     *)
(* are merged complete and once, and the run does not abort on it. Stated   *)
(* of the result as main has just merged it.                                *)
(***************************************************************************)
C17_WalkErrorContained ==
    /\ (pc = "aborted" => num_processes > 1)
    /\ JustMerged =>
         /\ \A f \in files :
              LET expected == IF UnitsVisiting(f) # {}
                              THEN Classify(f, keywords) ELSE "none"
              IN  \A b \in Buckets :
                      /\ Occ(FilePath(f), b) <= (IF b = expected THEN 1 ELSE 0)
                      /\ (b = expected /\ UnitsVisiting(f) \cap raised = {})
                           => Occ(FilePath(f), b) = 1
         /\ \A b \in Buckets : \A i \in 1..Len(all_found_files[b]) :
              \E f \in files : all_found_files[b][i] = PairOf(f)
         /\ \A u \in Units :
              CopiesIn(Event("error", scan_roots[u]), log)
                = (IF u \in raised THEN 1 ELSE 0)

C17_Witness ==
    /\ pc = "done"
    /\ OkCount >= 1
    /\ \E u \in raised : \E v \in Units \ raised :
         /\ \E f \in VisitedFrom(scan_roots[u]) : Classify(f, keywords) = "als"
         /\ MergedOfUnit(u, "als") = {}
         /\ MergedOfUnit(v, "als") # {}

(***************************************************************************)
(* C18: when the scan pool fails the run ends there: nothing is merged, no  *)
(* scan summary is logged, no candidate is handed to the copy phase and     *)
(* nothing is written, even when units had already returned candidates.     *)
(***************************************************************************)
C18_ScanPoolFailureAborts ==
    pc = "aborted" =>
        /\ all_found_files = EmptyFound
        /\ scan_summary = <<>>
        /\ all_files_to_save = <<>>
        /\ saveMode = "none"
        /\ save_results = <<>>
        /\ dest = {}
        /\ successful_saves = 0 /\ failed_saves = 0

C18_Witness ==
    /\ pc = "aborted"
    /\ \E r \in 1..Len(results) : results[r].als # <<>>

(***************************************************************************)
(* C19: the destinations of the candidates of a scan are pairwise           *)
(* distinct, so no two copies write the same file.                          *)
(***************************************************************************)
C19_DistinctDestinations ==
    /\ \A i, j \in Candidates :
         i # j => all_files_to_save[i][2] # all_files_to_save[j][2]
    /\ Cardinality(dest) = OkCount

C19_Witness ==
    /\ saveMode = "pool"
    /\ \E i, j \in Candidates :
         /\ i # j
         /\ all_files_to_save[i][1][Len(all_files_to_save[i][1])]
              = all_files_to_save[j][1][Len(all_files_to_save[j][1])]
         /\ outcome[i] = "ok" /\ outcome[j] = "ok"

(***************************************************************************)
(* C20: in each bucket of the merged result the candidates of a unit        *)
(* dispatched earlier precede those of a unit dispatched later, in pooled   *)
(* and in sequential mode. Violated in pooled mode, where the results are   *)
(* merged in the order the units complete.                                  *)
(***************************************************************************)
C20_MergedInDispatchOrder ==
    Merged =>
        \A b \in Buckets : \A i, j \in 1..Len(all_found_files[b]) :
            i < j => UnitOf(all_found_files[b][i])
                       <= UnitOf(all_found_files[b][j])

(***************************************************************************)
(* C21: under fair scheduling every run ends: unless a pool fails, every    *)
(* unit returns, the results are merged, every candidate receives a copy    *)
(* outcome and the tally is reported, or nothing was found; this whatever   *)
(* files and directories are unreadable, headers fail to read, walks raise  *)
(* and copies fail. When the scan pool fails the run ends aborted, when the *)
(* save pool fails it ends with the tally reported.                         *)
(***************************************************************************)
Completed ==
    /\ AllUnitsReturned
    /\ \/ pc = "nofiles" /\ all_found_files = EmptyFound
       \/ /\ pc = "done"
          /\ \A i \in Candidates : outcome[i] \in {"ok", "failed"}
          /\ successful_saves + failed_saves = Len(all_files_to_save)

C21_EveryRunTerminates ==
    <>(\/ Completed
       \/ pc = "aborted"
       \/ pc = "done" /\ saveMode = "poolfailed")

C21_Witness ==
    /\ Completed
    /\ pc = "done"
    /\ saveMode = "pool"
    /\ raised # {}
    /\ \E i, j \in Candidates : outcome[i] = "ok" /\ outcome[j] = "failed"
    /\ \E f \in files : ~f.readable

====
